---- MODULE Spec2Model ----
(***************************************************************************)
(* A model of PrayerApp/PrayerApp.py: the CSV loaders, the phone-number    *)
(* formatter and the handlers of the Reflex State class (authentication,   *)
(* view toggles, data loading on mount, prayer-request submission).        *)
(*                                                                         *)
(* Text whose characters the code inspects (cells of the CSV tables, the   *)
(* prayer-request draft, record contents) is a sequence of one-character   *)
(* strings.  Text the code only compares for equality (the password, the   *)
(* column headers) is a TLA+ string.                                       *)
(***************************************************************************)
EXTENDS Integers, Sequences, FiniteSets, TLC

\* ------------------------------------------------------------------ bounds

\* The source files generated hold at most this many data lines, each of at
\* most this many fields.
MaxLines == 2
MaxFields == 2

\* The phone numbers generated hold at most this many characters.
MaxPhoneLen == 11

\* The wall clock advances at most this many seconds past Epoch.
MaxClock == 1

\* The count of consecutive load_data_on_mount calls saturates here.
MaxCalls == 3

\* ------------------------------------------------------- pure text helpers

\* Characters for which str.isdigit is true.
Digits == {"0", "1", "2", "3", "4", "5", "6", "7", "8", "9"}

\* The whitespace characters considered; str.strip() removes them.
Whitespace == {" ", "\t", "\n"}

IsDigit(c) == c \in Digits

\* _format_phone_number formatting 10 digits or more (mutant).
_format_phone_number_m(phone) ==
    LET digits == SelectSeq(phone, IsDigit)
    IN  IF Len(digits) >= 10
        THEN <<"(">> \o SubSeq(digits, 1, 3) \o <<")", " ">>
             \o SubSeq(digits, 4, 6) \o <<"-">> \o SubSeq(digits, 7, Len(digits))
        ELSE phone

\* _format_phone_number with its first two slices exchanged (mutant).
_format_phone_number_swap(phone) ==
    LET digits == SelectSeq(phone, IsDigit)
    IN  IF Len(digits) = 10
        THEN <<"(">> \o SubSeq(digits, 4, 6) \o <<")", " ">>
             \o SubSeq(digits, 1, 3) \o <<"-">> \o SubSeq(digits, 7, Len(digits))
        ELSE phone

\* _format_phone_number(phone): "(AAA) BBB-CCCC" from exactly 10 digits,
\* otherwise the argument itself.
_format_phone_number(phone) ==
    LET digits == SelectSeq(phone, IsDigit)
    IN  IF Len(digits) = 10
        THEN <<"(">> \o SubSeq(digits, 1, 3) \o <<")", " ">>
             \o SubSeq(digits, 4, 6) \o <<"-">> \o SubSeq(digits, 7, Len(digits))
        ELSE phone

RECURSIVE lstrip(_)
lstrip(s) ==
    IF s # <<>> /\ Head(s) \in Whitespace THEN lstrip(Tail(s)) ELSE s

RECURSIVE rstrip(_)
rstrip(s) ==
    IF s # <<>> /\ s[Len(s)] \in Whitespace
    THEN rstrip(SubSeq(s, 1, Len(s) - 1))
    ELSE s

\* str.strip(), stripping only the left end (mutant).
strip_m(s) == lstrip(s)

\* str.strip(): leading and trailing whitespace removed.
strip(s) == rstrip(lstrip(s))

\* ------------------------------------------------------------- CSV sources

\* A source file of the application directory: missing/unreadable, or a
\* delimited text with a header line and data lines of raw fields.
Missing == [kind |-> "missing", header |-> <<>>, lines |-> <<>>]

Csv(header, lines) == [kind |-> "csv", header |-> header, lines |-> lines]

\* Raw fields pandas.read_csv reads as NaN (its default na_values, in part).
NaValues == { <<>>, <<"n", "a", "n">>, <<"N", "a", "N">>, <<"N", "A">> }

\* The outcome of a call that raised.
Raise == [ok |-> FALSE, headers |-> <<>>, rows |-> <<>>]

Return(headers, rows) == [ok |-> TRUE, headers |-> headers, rows |-> rows]

Max(a, b) == IF a > b THEN a ELSE b

\* A line holding nothing, which pandas.read_csv skips.
blank_line(line) == line = << <<>> >>

not_blank_line(line) == ~blank_line(line)

\* The data lines pandas.read_csv parses.
data_lines(file) == SelectSeq(file.lines, not_blank_line)

\* The number of fields pandas.read_csv expects in a data line: that of the
\* header line or, when the first data line is longer, of that line, whose
\* leading fields then become the index of the frame.
field_count(file) ==
    IF data_lines(file) = <<>> THEN Len(file.header)
    ELSE Max(Len(file.header), Len(data_lines(file)[1]))

\* pd.read_csv raises: the file is missing or unreadable, is empty, or has a
\* data line with more fields than expected.
raises(file) ==
    \/ file.kind = "missing"
    \/ file.header = <<>>
    \/ \E i \in 1..Len(data_lines(file)) :
          Len(data_lines(file)[i]) > field_count(file)

\* One row as iterrows hands it over, as strings: the fields after the index,
\* a short line padded with NaN, NaN turned into "" by line 42.
string_row(line, leading, width) ==
    [i \in 1..width |->
        IF i + leading <= Len(line) /\ line[i + leading] \notin NaValues
        THEN line[i + leading]
        ELSE <<>>]

\* _read_csv_safe returning the fields of each line as they are (mutant).
_read_csv_safe_m(file) ==
    IF raises(file) THEN Raise ELSE Return(file.header, data_lines(file))

\* _read_csv_safe(path): (headers, rows) of strings, or an exception.
_read_csv_safe(file) ==
    IF raises(file)
    THEN Raise
    ELSE Return(file.header,
                [i \in 1..Len(data_lines(file)) |->
                    string_row(data_lines(file)[i],
                               field_count(file) - Len(file.header),
                               Len(file.header))])

\* The fallback of load_schedule_from_csv.
ScheduleFallback ==
    Return(<<"Date", "Event">>,
      << << <<"0", "9", "/", "1", "2", "/", "2", "0", "2", "5">>,
            <<"O", "p", "e", "n", "i", "n", "g", " ", "C", "G", " ",
              "G", "a", "t", "h", "e", "r", "i", "n", "g">> >>,
         << <<"0", "9", "/", "1", "9", "/", "2", "0", "2", "5">>,
            <<"D", "i", "s", "c", "u", "s", "s", "i", "o", "n">> >>,
         << <<"E", "r", "r", "o", "r">>,
            <<"C", "o", "u", "l", "d", " ", "n", "o", "t", " ", "l", "o", "a",
              "d", " ", "s", "c", "h", "e", "d", "u", "l", "e", ".", "c", "s",
              "v", " ", "-", " ", "u", "s", "i", "n", "g", " ", "f", "a", "l",
              "l", "b", "a", "c", "k", " ", "d", "a", "t", "a">> >> >>)

\* The fallback of load_members_from_csv.
MembersFallback == Return(<<"Name", "Role">>, <<>>)

\* load_schedule_from_csv falling back on a table without rows too (mutant).
load_schedule_from_csv_m(file) ==
    LET r == _read_csv_safe(file)
    IN  IF r.ok /\ r.rows # <<>> THEN r ELSE ScheduleFallback

\* load_schedule_from_csv(): the table read, or the fallback on any exception.
load_schedule_from_csv(file) ==
    LET r == _read_csv_safe(file)
    IN  IF r.ok THEN r ELSE ScheduleFallback

\* The index of the first occurrence of x in the list (list.index).
index(headers, x) ==
    CHOOSE i \in 1..Len(headers) :
        headers[i] = x /\ \A j \in 1..(i - 1) : headers[j] # x

\* load_members_from_csv(): the table read, its Contact column formatted, or
\* the fallback on any exception.
load_members_from_csv(file) ==
    LET r == _read_csv_safe(file)
    IN  IF ~r.ok THEN MembersFallback
        ELSE IF \E i \in 1..Len(r.headers) : r.headers[i] = "Contact"
        THEN LET contact_index == index(r.headers, "Contact")
             IN  Return(r.headers,
                   [k \in 1..Len(r.rows) |->
                      [i \in 1..Len(r.rows[k]) |->
                         IF i = contact_index /\ r.rows[k][i] # <<>>
                         THEN _format_phone_number(r.rows[k][i])
                         ELSE r.rows[k][i]]])
        ELSE r

\* A schedule.csv with rows, of which one is short and one holds a
\* not-a-value marker.
ScheduleRows ==
    Csv(<<"Date", "Event">>,
        << << <<"9", "/", "5">>, <<"N", "A">> >>,
           << <<"9", "/", "6">> >> >>)

\* A members.csv with a Contact column holding a phone number, a short
\* number and a missing field.
MembersRows ==
    Csv(<<"Name", "Contact">>,
        << << <<"A", "l">>,
              <<"1", "2", "3", "-", "4", "5", "6", "-", "7", "8", "9", "0">> >>,
           << <<"B", "o">>, <<"5", "5", "5">> >>,
           << <<"C", "y">> >> >>)

\* The installations considered, as <<schedule.csv, members.csv>>: each file
\* is missing in one, holds only its header line in one, and has rows in one.
Installations ==
    { <<Missing, Missing>>,
      <<Csv(<<"Date", "Event">>, <<>>), MembersRows>>,
      <<ScheduleRows, Csv(<<"Name", "Contact">>, <<>>)>> }

\* ------------------------------------------------------------------ inputs

\* The keyword submit_password compares with.
SECRET == "2ndstreet"

\* Values typed into the keyword field.
Passwords == {"", SECRET, "wrong"}

\* Keys reported to handle_key_down.
Keys == {"Enter", "a"}

\* Texts typed into the prayer-request text area.
Drafts == { <<>>, <<" ", "\n">>, <<" ", "a", "\n">>, <<"b">> }

Datasets == {"schedule", "members"}

\* ----------------------------------------------------------- return values

None == "None"
RedirectHome == "redirect:/home"
RedirectLogin == "redirect:/"
ToastEmpty == "toast.error:Please enter a prayer request."
ToastSaved == "toast.success:Prayer request submitted and saved."
ToastSaveError == "toast.error:Error saving prayer request"

\* ------------------------------------------------------------------- state

VARIABLES
    password,             \* State.password
    show_error,           \* State.show_error
    is_authenticated,     \* State.is_authenticated
    schedule_headers,     \* State.schedule_headers
    schedule_rows,        \* State.schedule_rows
    members_headers,      \* State.members_headers
    members_rows,         \* State.members_rows
    show_members,         \* State.show_members
    show_schedule,        \* State.show_schedule
    prayer_request_text,  \* State.prayer_request_text
    schedule_csv,         \* the file schedule.csv
    members_csv,          \* the file members.csv
    dir_exists,           \* whether the directory prayer_requests exists
    store,                \* the files of prayer_requests: name -> content
    now,                  \* the wall clock, in seconds past Epoch
    op,                   \* the handler invoked last
    signal,               \* what that handler returned
    mount_calls,          \* consecutive load_data_on_mount calls so far
    mount_loads,          \* loads of each dataset made by those calls
    pc,                   \* the line a submit_prayer_request call has reached
    prayer_text,          \* its local prayer_text
    filepath              \* its local filepath

auth == <<password, show_error, is_authenticated>>
data == <<schedule_headers, schedule_rows, members_headers, members_rows>>
view == <<show_members, show_schedule>>
session == <<auth, data, view, prayer_request_text>>
files == <<schedule_csv, members_csv>>
disk == <<dir_exists, store>>
mount == <<mount_calls, mount_loads>>
frame == <<pc, prayer_text, filepath>>
vars == <<session, files, frame, disk, now, op, signal, mount>>

\* The state of a new session, of an empty record store and of the clock.
InitState ==
    /\ password = ""
    /\ show_error = FALSE
    /\ is_authenticated = FALSE
    /\ schedule_headers = <<>>
    /\ schedule_rows = <<>>
    /\ members_headers = <<>>
    /\ members_rows = <<>>
    /\ show_members = FALSE
    /\ show_schedule = TRUE
    /\ prayer_request_text = <<>>
    /\ dir_exists = FALSE
    /\ store = <<>>
    /\ now = 0
    /\ op = "init"
    /\ signal = None
    /\ mount_calls = 0
    /\ mount_loads = [d \in Datasets |-> 0]
    /\ pc = "idle"
    /\ prayer_text = <<>>
    /\ filepath = <<>>

Init ==
    /\ InitState
    /\ \E inst \in Installations :
          schedule_csv = inst[1] /\ members_csv = inst[2]

\* A handler other than load_data_on_mount ends a run of consecutive calls.
NotMount ==
    /\ mount_calls' = 0
    /\ mount_loads' = [d \in Datasets |-> 0]

\* ------------------------------------------------------------- wall clock

\* The date and time the clock shows at second 0: the last second of a year.
Epoch == [Y |-> 2024, m |-> 12, d |-> 31, H |-> 23, M |-> 59, S |-> 59]

is_leap(y) == (y % 4 = 0 /\ y % 100 # 0) \/ y % 400 = 0

days_in_month(y, m) ==
    IF m = 2 THEN (IF is_leap(y) THEN 29 ELSE 28)
    ELSE IF m \in {4, 6, 9, 11} THEN 30 ELSE 31

\* The seconds of a day.
Day == 86400

\* The calendar day after that of dt, at the same time of day.
next_day(dt) ==
    IF dt.d < days_in_month(dt.Y, dt.m) THEN [dt EXCEPT !.d = dt.d + 1]
    ELSE IF dt.m < 12 THEN [dt EXCEPT !.d = 1, !.m = dt.m + 1]
    ELSE [dt EXCEPT !.d = 1, !.m = 1, !.Y = dt.Y + 1]

RECURSIVE date_after(_, _)
date_after(dt, days) ==
    IF days = 0 THEN dt ELSE date_after(next_day(dt), days - 1)

\* The date and time that many seconds after dt.
datetime_at(dt, seconds) ==
    LET total == dt.H * 3600 + dt.M * 60 + dt.S + seconds
        rest == total % Day
    IN  [date_after(dt, total \div Day) EXCEPT
            !.H = rest \div 3600,
            !.M = (rest % 3600) \div 60,
            !.S = rest % 60]

\* datetime.now(): the local date and time at clock value t.
datetime_now(t) == datetime_at(Epoch, t)

\* strftime with the day written before the month (mutant).
strftime_m(dt) == <<dt.d, dt.m, dt.Y, dt.H, dt.M, dt.S>>

\* strftime("%m_%d_%Y_%H_%M_%S.txt"): the zero-padded fields of the name, in
\* the order they are written.
strftime(dt) == <<dt.m, dt.d, dt.Y, dt.H, dt.M, dt.S>>

\* The name taken from a clock that stopped at the start (mutant).
filename_m(t) == strftime(datetime_now(0))

\* The name submit_prayer_request gives a record written at clock value t.
filename(t) == strftime(datetime_now(t))

\* ----------------------------------------------------------------- toggles

\* toggle_members with the other flag left alone (mutant).
toggle_members_m ==
    /\ show_members' = TRUE
    /\ op' = "toggle_members"
    /\ signal' = None
    /\ NotMount
    /\ UNCHANGED <<auth, data, show_schedule, prayer_request_text, files, frame, disk, now>>

toggle_members ==
    /\ show_members' = TRUE
    /\ show_schedule' = FALSE
    /\ op' = "toggle_members"
    /\ signal' = None
    /\ NotMount
    /\ UNCHANGED <<auth, data, prayer_request_text, files, frame, disk, now>>

toggle_schedule ==
    /\ show_members' = FALSE
    /\ show_schedule' = TRUE
    /\ op' = "toggle_schedule"
    /\ signal' = None
    /\ NotMount
    /\ UNCHANGED <<auth, data, prayer_request_text, files, frame, disk, now>>

\* ----------------------------------------------------------- auth handlers

\* set_password without the reset of the error flag (mutant).
set_password_m(value) ==
    /\ password' = value
    /\ op' = "set_password"
    /\ signal' = None
    /\ NotMount
    /\ UNCHANGED <<show_error, is_authenticated, data, view,
                   prayer_request_text, files, frame, disk, now>>

set_password(value) ==
    /\ password' = value
    /\ show_error' = (IF show_error THEN FALSE ELSE show_error)
    /\ op' = "set_password"
    /\ signal' = None
    /\ NotMount
    /\ UNCHANGED <<is_authenticated, data, view, prayer_request_text,
                   files, frame, disk, now>>

\* The body of submit_password with the comparison dropped (mutant).
do_submit_password_m ==
    /\ is_authenticated' = TRUE
    /\ signal' = RedirectHome
    /\ UNCHANGED <<password, show_error>>

\* The body of submit_password with the candidate cleared on a mismatch
\* (mutant).
do_submit_password_clear ==
    IF password = SECRET
    THEN /\ is_authenticated' = TRUE
         /\ signal' = RedirectHome
         /\ UNCHANGED <<password, show_error>>
    ELSE /\ show_error' = TRUE
         /\ password' = ""
         /\ signal' = None
         /\ UNCHANGED is_authenticated

\* The body of submit_password, which handle_key_down runs as well.
do_submit_password ==
    IF password = SECRET
    THEN /\ is_authenticated' = TRUE
         /\ signal' = RedirectHome
         /\ UNCHANGED <<password, show_error>>
    ELSE /\ show_error' = TRUE
         /\ signal' = None
         /\ UNCHANGED <<password, is_authenticated>>

submit_password ==
    /\ do_submit_password
    /\ op' = "submit_password"
    /\ NotMount
    /\ UNCHANGED <<data, view, prayer_request_text, files, frame, disk, now>>

\* handle_key_down submitting on every key (mutant).
handle_key_down_m(key) ==
    /\ do_submit_password
    /\ op' = "handle_key_down"
    /\ NotMount
    /\ UNCHANGED <<data, view, prayer_request_text, files, frame, disk, now>>

handle_key_down(key) ==
    /\ IF key = "Enter"
       THEN do_submit_password
       ELSE signal' = None /\ UNCHANGED auth
    /\ op' = "handle_key_down"
    /\ NotMount
    /\ UNCHANGED <<data, view, prayer_request_text, files, frame, disk, now>>

\* logout with the view reset as well (mutant).
logout_m ==
    /\ is_authenticated' = FALSE
    /\ password' = ""
    /\ show_error' = FALSE
    /\ show_members' = FALSE
    /\ show_schedule' = TRUE
    /\ op' = "logout"
    /\ signal' = RedirectLogin
    /\ NotMount
    /\ UNCHANGED <<data, prayer_request_text, files, frame, disk, now>>

logout ==
    /\ is_authenticated' = FALSE
    /\ password' = ""
    /\ show_error' = FALSE
    /\ op' = "logout"
    /\ signal' = RedirectLogin
    /\ NotMount
    /\ UNCHANGED <<data, view, prayer_request_text, files, frame, disk, now>>

\* check_auth_and_redirect ending the session it turns away (mutant).
check_auth_and_redirect_m ==
    /\ signal' = (IF ~is_authenticated THEN RedirectLogin ELSE None)
    /\ password' = ""
    /\ show_error' = FALSE
    /\ op' = "check_auth_and_redirect"
    /\ NotMount
    /\ UNCHANGED <<is_authenticated, data, view, prayer_request_text,
                   files, frame, disk, now>>

check_auth_and_redirect ==
    /\ signal' = (IF ~is_authenticated THEN RedirectLogin ELSE None)
    /\ op' = "check_auth_and_redirect"
    /\ NotMount
    /\ UNCHANGED <<session, files, frame, disk, now>>

\* ---------------------------------------------------------- prayer request

set_prayer_request(text) ==
    /\ prayer_request_text' = text
    /\ op' = "set_prayer_request"
    /\ signal' = None
    /\ NotMount
    /\ UNCHANGED <<auth, data, view, files, frame, disk, now>>

\* The file of that name created, or truncated, and given that content
\* (open(filepath, "w") followed by what reached the file).
written(name, content) == (name :> content) @@ store

\* The proper prefixes of a text: what a write that failed may leave.
partial(text) == { SubSeq(text, 1, k) : k \in 0..(Len(text) - 1) }

\* Lines 129-131: a blank draft is refused before the try block.
submit_blank ==
    /\ strip(prayer_request_text) = <<>>
    /\ signal' = ToastEmpty
    /\ UNCHANGED <<session, disk>>

\* Line 136 raises: no directory, no file.  With exist_ok=True it does not
\* raise over a directory that exists.
submit_makedirs_fails ==
    /\ strip(prayer_request_text) # <<>>
    /\ ~dir_exists
    /\ signal' = ToastSaveError
    /\ UNCHANGED <<session, disk>>

\* Line 144 raises: the directory is there, the file is not touched.
submit_open_fails ==
    /\ strip(prayer_request_text) # <<>>
    /\ dir_exists' = TRUE
    /\ signal' = ToastSaveError
    /\ UNCHANGED <<session, store>>

\* Line 145, or the flush on leaving the with block, raises: the file was
\* created or truncated by open and holds part of the text.
submit_write_fails ==
    /\ strip(prayer_request_text) # <<>>
    /\ dir_exists' = TRUE
    /\ \E content \in partial(strip(prayer_request_text)) :
          store' = written(filename(now), content)
    /\ signal' = ToastSaveError
    /\ UNCHANGED session

\* Lines 133-149 with nothing raised.
submit_saved ==
    /\ strip(prayer_request_text) # <<>>
    /\ dir_exists' = TRUE
    /\ store' = written(filename(now), strip(prayer_request_text))
    /\ prayer_request_text' = <<>>
    /\ signal' = ToastSaved
    /\ UNCHANGED <<auth, data, view>>

\* submit_prayer_request without the check of lines 130-131 (mutant).
submit_prayer_request_m ==
    /\ dir_exists' = TRUE
    /\ store' = written(filename(now), strip(prayer_request_text))
    /\ prayer_request_text' = <<>>
    /\ signal' = ToastSaved
    /\ op' = "submit_prayer_request"
    /\ NotMount
    /\ UNCHANGED <<auth, data, view, files, frame, now>>

submit_prayer_request ==
    /\ \/ submit_blank
       \/ submit_makedirs_fails
       \/ submit_open_fails
       \/ submit_write_fails
       \/ submit_saved
    /\ op' = "submit_prayer_request"
    /\ NotMount
    /\ UNCHANGED <<files, frame, now>>

\* ------------------------------------------------------ data loading on mount

\* The conditions of lines 155 and 160.
schedule_empty == schedule_headers = <<>> \/ schedule_rows = <<>>
members_empty == members_headers = <<>> \/ members_rows = <<>>

Min(a, b) == IF a < b THEN a ELSE b

load_data_on_mount ==
    /\ IF schedule_empty
       THEN /\ schedule_headers' = load_schedule_from_csv(schedule_csv).headers
            /\ schedule_rows' = load_schedule_from_csv(schedule_csv).rows
       ELSE UNCHANGED <<schedule_headers, schedule_rows>>
    /\ IF members_empty
       THEN /\ members_headers' = load_members_from_csv(members_csv).headers
            /\ members_rows' = load_members_from_csv(members_csv).rows
       ELSE UNCHANGED <<members_headers, members_rows>>
    /\ mount_calls' = Min(mount_calls + 1, MaxCalls)
    /\ mount_loads' =
          [d \in Datasets |->
              IF (d = "schedule" /\ schedule_empty) \/ (d = "members" /\ members_empty)
              THEN Min(mount_loads[d] + 1, MaxCalls)
              ELSE mount_loads[d]]
    /\ op' = "load_data_on_mount"
    /\ signal' = None
    /\ UNCHANGED <<auth, view, prayer_request_text, files, frame, disk, now>>

\* ------------------------------------------------------------ environment

\* A second of wall-clock time passes.
Tick ==
    /\ now < MaxClock
    /\ now' = now + 1
    /\ UNCHANGED <<session, files, frame, disk, op, signal, mount>>

\* ----------------------------------------------------------- specification

Next ==
    \/ toggle_members
    \/ toggle_schedule
    \/ \E text \in Drafts : set_prayer_request(text)
    \/ submit_prayer_request
    \/ load_data_on_mount
    \/ \E value \in Passwords : set_password(value)
    \/ submit_password
    \/ \E key \in Keys : handle_key_down(key)
    \/ logout
    \/ check_auth_and_redirect
    \/ Tick

Spec == Init /\ [][Next]_vars

\* ------------------------------------------------------------------ claims

\* C1: a submit_password step taken while the candidate equals the secret
\* leaves is_authenticated true and show_error false and returns the redirect
\* to /home; taken while the candidate differs, it leaves show_error true and
\* a logged-out session logged out.
C1_SubmitPassword ==
    [][submit_password =>
          IF password = SECRET
          THEN is_authenticated' /\ ~show_error' /\ signal' = RedirectHome
          ELSE show_error' /\ (~is_authenticated => ~is_authenticated')]_vars

\* C1 witness: submit_password has just logged the session in.
C1_Witness ==
    /\ op = "submit_password"
    /\ password = SECRET
    /\ is_authenticated
    /\ ~show_error
    /\ signal = RedirectHome

\* C2 as stated: after a submit_password step with a candidate other than the
\* secret, whatever is_authenticated was, show_error is true, is_authenticated
\* is false and the candidate is unchanged.
C2_Original ==
    [][(submit_password /\ password # SECRET) =>
          show_error' /\ ~is_authenticated' /\ password' = password]_vars

\* C2 amended: after a submit_password step with a candidate other than the
\* secret, show_error is true and both is_authenticated and the candidate are
\* what they were before.
C2_MismatchKeepsSession ==
    [][(submit_password /\ password # SECRET) =>
          /\ show_error'
          /\ is_authenticated' = is_authenticated
          /\ password' = password]_vars

\* C2 witness: a wrong candidate was submitted in a logged-in session.
C2_Witness ==
    /\ op = "submit_password"
    /\ password = "wrong"
    /\ show_error
    /\ is_authenticated

\* The steps of the handlers that are neither submit_password, nor
\* handle_key_down with Enter, nor logout.
OtherHandlerStep ==
    \/ \E value \in Passwords : set_password(value)
    \/ \E key \in Keys \ {"Enter"} : handle_key_down(key)
    \/ toggle_members
    \/ toggle_schedule
    \/ \E text \in Drafts : set_prayer_request(text)
    \/ submit_prayer_request
    \/ load_data_on_mount
    \/ check_auth_and_redirect

\* C3: is_authenticated starts false; it turns true only in a step of
\* submit_password, or of handle_key_down with Enter, taken while the candidate
\* equals the secret; it turns false only in a logout step; the steps of every
\* other handler leave it as it is.
C3_AuthMachine ==
    /\ ~is_authenticated
    /\ [][/\ (~is_authenticated /\ is_authenticated') =>
                (submit_password \/ handle_key_down("Enter")) /\ password = SECRET
          /\ (is_authenticated /\ ~is_authenticated') => logout
          /\ OtherHandlerStep => is_authenticated' = is_authenticated]_vars

\* C3 witness: the session was logged in through the Enter key.
C3_Witness ==
    /\ op = "handle_key_down"
    /\ is_authenticated
    /\ password = SECRET
    /\ signal = RedirectHome

\* C4 as stated: over two consecutive load_data_on_mount calls, each dataset is
\* loaded at most once.
C4_MountIdempotent ==
    mount_calls <= 2 => \A d \in Datasets : mount_loads[d] <= 1

\* t is made of whitespace only.
Blank(t) == \A i \in 1..Len(t) : t[i] \in Whitespace

\* c is t without its leading and trailing whitespace.
TrimOf(c, t) ==
    /\ c # <<>>
    /\ c[1] \notin Whitespace
    /\ c[Len(c)] \notin Whitespace
    /\ \E i \in 1..Len(t) :
          /\ i + Len(c) - 1 <= Len(t)
          /\ SubSeq(t, i, i + Len(c) - 1) = c
          /\ \A k \in 1..Len(t) : (k < i \/ k >= i + Len(c)) => t[k] \in Whitespace

\* A submit_prayer_request step that returned the success notification.
SavedStep == submit_prayer_request /\ signal' = ToastSaved

\* C5 as stated: every successful submit_prayer_request step makes the number
\* of records grow by one, leaves a record holding the trimmed draft and
\* empties the draft.
C5_Original ==
    [][SavedStep =>
          /\ Cardinality(DOMAIN store') = Cardinality(DOMAIN store) + 1
          /\ \E name \in DOMAIN store' \ DOMAIN store :
                TrimOf(store'[name], prayer_request_text)
          /\ prayer_request_text' = <<>>]_vars

\* C5 amended: every successful submit_prayer_request step leaves the record
\* named after the current second holding the trimmed draft, leaves every
\* other record as it was and empties the draft; the number of records grows
\* by one when no record of that name existed and stays the same otherwise.
C5_SavedRecord ==
    [][SavedStep =>
          /\ DOMAIN store' = DOMAIN store \cup {filename(now)}
          /\ TrimOf(store'[filename(now)], prayer_request_text)
          /\ \A name \in DOMAIN store \ {filename(now)} : store'[name] = store[name]
          /\ Cardinality(DOMAIN store') =
                IF filename(now) \in DOMAIN store
                THEN Cardinality(DOMAIN store)
                ELSE Cardinality(DOMAIN store) + 1
          /\ prayer_request_text' = <<>>]_vars

\* C5 witness: a second record was saved, from a draft with whitespace around
\* it, beside one saved a second earlier.
C5_Witness ==
    /\ op = "submit_prayer_request"
    /\ signal = ToastSaved
    /\ prayer_request_text = <<>>
    /\ Cardinality(DOMAIN store) = 2
    /\ filename(now) \in DOMAIN store
    /\ store[filename(now)] = <<"a">>

\* C6: a submit_prayer_request step taken while the draft is empty or only
\* whitespace returns the validation notification, creates no directory and
\* no file, writes nothing, and leaves every session field as it was.
C6_BlankRejected ==
    [][(submit_prayer_request /\ Blank(prayer_request_text)) =>
          /\ signal' = ToastEmpty
          /\ UNCHANGED <<dir_exists, store>>
          /\ UNCHANGED session]_vars

\* C6 witness: a whitespace-only draft was refused before the directory was
\* ever created.
C6_Witness ==
    /\ op = "submit_prayer_request"
    /\ signal = ToastEmpty
    /\ prayer_request_text = <<" ", "\n">>
    /\ ~dir_exists
    /\ store = <<>>

\* C7: exactly one of show_schedule and show_members is true.
C7_OneViewActive == show_schedule # show_members

\* C7 witness: the members view is active in a session that has just logged in
\* and has its members loaded.
C7_Witness ==
    /\ show_members
    /\ ~show_schedule
    /\ is_authenticated
    /\ op = "submit_password"
    /\ members_headers # <<>>

\* C8: a logout step leaves is_authenticated false, the candidate empty and
\* show_error false, and leaves the view flags and both datasets as they were.
C8_LogoutFrame ==
    [][logout =>
          /\ ~is_authenticated'
          /\ password' = ""
          /\ ~show_error'
          /\ UNCHANGED <<show_members, show_schedule>>
          /\ UNCHANGED <<schedule_headers, schedule_rows,
                         members_headers, members_rows>>]_vars

\* C8 witness: logout ended a session that had the members view selected and
\* its datasets loaded.
C8_Witness ==
    /\ op = "logout"
    /\ signal = RedirectLogin
    /\ ~is_authenticated
    /\ password = ""
    /\ show_members
    /\ schedule_headers # <<>>
    /\ members_rows # <<>>

\* C9 as stated: right after logout every session field but the datasets has
\* its initial value, the draft included.
C9_LogoutResets ==
    op = "logout" =>
        /\ ~is_authenticated
        /\ password = ""
        /\ ~show_error
        /\ ~show_members
        /\ show_schedule
        /\ prayer_request_text = <<>>

\* C10: a set_password step leaves show_error false, whatever the value and
\* whether or not show_error was true, makes the value the candidate, and
\* leaves every other session field as it was.
C10_SetPassword ==
    [][\A value \in Passwords :
          set_password(value) =>
             /\ ~show_error'
             /\ password' = value
             /\ UNCHANGED <<is_authenticated, data, view, prayer_request_text>>]_vars

\* C10 witness: the rejected candidate was typed again and no error is shown.
C10_Witness ==
    /\ op = "set_password"
    /\ password = "wrong"
    /\ ~show_error
    /\ ~is_authenticated

\* C11: a check_auth_and_redirect step changes no session field; it returns
\* the redirect to the login page when is_authenticated is false and nothing
\* when it is true.
C11_CheckAuthFrame ==
    [][check_auth_and_redirect =>
          /\ UNCHANGED session
          /\ (~is_authenticated => signal' = RedirectLogin)
          /\ (is_authenticated => signal' = None)]_vars

\* C11 witness: a logged-out session holding a rejected candidate and a draft
\* was sent to the login page.
C11_Witness ==
    /\ op = "check_auth_and_redirect"
    /\ signal = RedirectLogin
    /\ ~is_authenticated
    /\ password = "wrong"
    /\ show_error
    /\ prayer_request_text # <<>>

\* C19: show_error is true only over a candidate other than the secret.
C19_ErrorOverRejected == show_error => password # SECRET

\* C19 witness: the error flag stands over the candidate just rejected.
C19_Witness ==
    /\ op = "submit_password"
    /\ show_error
    /\ password = "wrong"

\* C20 as stated: in a session that is not authenticated, the steps of
\* submit_prayer_request and load_data_on_mount leave the record store and the
\* datasets as they were.
C20_Gated ==
    [][(~is_authenticated /\ (submit_prayer_request \/ load_data_on_mount)) =>
          UNCHANGED <<store, data>>]_vars

\* ------------------------------------------------- loading of any source file

\* The fields of the generated files: a value and an empty field.
Cells == { <<"5">>, <<>> }

\* The header lines of the generated files.
Headers == { <<"Contact">>, <<"Name", "Contact">> }

\* The data lines of 1 to MaxFields fields.
Lines == UNION { [1..k -> Cells] : k \in 1..MaxFields }

\* The source files generated: a missing one, an empty one, and every header
\* line followed by up to MaxLines data lines, well-formed or ragged.
Files ==
    {Missing, Csv(<<>>, <<>>)}
    \cup { Csv(h, ls) : h \in Headers,
                        ls \in UNION { [1..k -> Lines] : k \in 0..MaxLines } }

\* A new session over one generated file, the other file missing.
InitFiles ==
    /\ InitState
    /\ \E f \in Files, d \in Datasets :
          /\ schedule_csv = (IF d = "schedule" THEN f ELSE Missing)
          /\ members_csv = (IF d = "members" THEN f ELSE Missing)

NextFiles == load_data_on_mount

SpecFiles == InitFiles /\ [][NextFiles]_vars

\* C12: in both datasets every row has as many cells as there are headers.
C12_RowWidth ==
    /\ \A i \in 1..Len(schedule_rows) :
          Len(schedule_rows[i]) = Len(schedule_headers)
    /\ \A i \in 1..Len(members_rows) :
          Len(members_rows[i]) = Len(members_headers)

\* C12 witness: rows were loaded from a ragged file, whose first data line is
\* longer than its header line and whose second is shorter than the first.
C12_Witness ==
    /\ op = "load_data_on_mount"
    /\ members_headers = members_csv.header
    /\ Len(members_rows) = 2
    /\ Len(members_csv.lines[1]) > Len(members_csv.header)
    /\ Len(members_csv.lines[2]) < Len(members_csv.lines[1])

\* C13: after load_data_on_mount, a dataset whose source could not be read is
\* exactly the fallback of its loader, and a dataset whose source was read and
\* has no data line has the headers of the source and no rows.
C13_FallbackExact ==
    op = "load_data_on_mount" =>
        /\ raises(schedule_csv) =>
              /\ schedule_headers = <<"Date", "Event">>
              /\ schedule_rows = ScheduleFallback.rows
              /\ Len(schedule_rows) = 3
        /\ raises(members_csv) =>
              /\ members_headers = <<"Name", "Role">>
              /\ members_rows = <<>>
        /\ (~raises(schedule_csv) /\ data_lines(schedule_csv) = <<>>) =>
              /\ schedule_headers = schedule_csv.header
              /\ schedule_rows = <<>>
        /\ (~raises(members_csv) /\ data_lines(members_csv) = <<>>) =>
              /\ members_headers = members_csv.header
              /\ members_rows = <<>>

\* C13 witness: the schedule fell back because a data line of schedule.csv is
\* longer than the lines before it allow, while members.csv is missing.
C13_Witness ==
    /\ op = "load_data_on_mount"
    /\ schedule_csv.kind = "csv"
    /\ Len(schedule_csv.lines) = 2
    /\ Len(schedule_csv.lines[2]) > Len(schedule_csv.lines[1])
    /\ schedule_rows = ScheduleFallback.rows
    /\ members_headers = <<"Name", "Role">>

\* ------------------------------------------------- formatting of any number

\* The characters of the generated phone numbers: two digits and a
\* punctuation mark.
PhoneChars == {"1", "2", "-"}

PhoneInputs == UNION { [1..k -> PhoneChars] : k \in 0..MaxPhoneLen }

\* A new session over a members.csv whose one data line holds a generated
\* phone number in its Contact column.
InitPhone ==
    /\ InitState
    /\ schedule_csv = Missing
    /\ \E phone \in PhoneInputs :
          members_csv = Csv(<<"Name", "Contact">>, << << <<"A", "l">>, phone >> >>)

\* The first load_data_on_mount of a session.
first_mount == mount_calls = 0 /\ load_data_on_mount

NextPhone == first_mount

SpecPhone == InitPhone /\ [][NextPhone]_vars

\* The phone number of the source file and the Contact cell loaded from it.
PhoneRead == members_csv.lines[1][2]
PhoneLoaded == members_rows[1][2]

\* out is "(AAA) BBB-CCCC" made of the 10 digits given, in their order.
Formatted(out, digits) ==
    /\ Len(out) = 14
    /\ out[1] = "(" /\ out[5] = ")" /\ out[6] = " " /\ out[10] = "-"
    /\ <<out[2], out[3], out[4], out[7], out[8], out[9],
         out[11], out[12], out[13], out[14]>> = digits

\* C14: the cell loaded from a phone number with exactly 10 digits is
\* "(AAA) BBB-CCCC" made of those digits in order; the cell loaded from a
\* phone number with any other count of digits is that phone number.
C14_PhoneFormat ==
    op = "load_data_on_mount" =>
        IF Len(SelectSeq(PhoneRead, IsDigit)) = 10
        THEN Formatted(PhoneLoaded, SelectSeq(PhoneRead, IsDigit))
        ELSE PhoneLoaded = PhoneRead

\* C14 witness: "12-12121212" was loaded as "(121) 212-1212".
C14_Witness ==
    /\ op = "load_data_on_mount"
    /\ PhoneRead = <<"1", "2", "-", "1", "2", "1", "2", "1", "2", "1", "2">>
    /\ PhoneLoaded = <<"(", "1", "2", "1", ")", " ", "2", "1", "2", "-",
                       "1", "2", "1", "2">>

\* C15: formatting the cell loaded, which is the formatted phone number, gives
\* that cell again.
C15_PhoneIdempotent ==
    op = "load_data_on_mount" =>
        _format_phone_number(PhoneLoaded) = PhoneLoaded

\* C15 witness: the cell loaded is a phone number that formatting changed.
C15_Witness ==
    /\ op = "load_data_on_mount"
    /\ PhoneLoaded # PhoneRead
    /\ PhoneLoaded[1] = "("
    /\ Len(PhoneRead) = 10

\* ------------------------------------------------- names of records over time

\* The clock values at which requests are submitted: the last second of 2024,
\* then 1 January, 2 January and 1 February 2025, one second past midnight.
Instants == {0, 2, Day + 2, 31 * Day + 2}

\* Time passes up to a later instant.
Pass ==
    /\ \E t \in Instants : t > now /\ now' = t
    /\ UNCHANGED <<session, files, frame, disk, op, signal, mount>>

NextNames ==
    \/ \E text \in Drafts : set_prayer_request(text)
    \/ submit_prayer_request
    \/ Pass

SpecNames == Init /\ [][NextNames]_vars

\* The trimmed texts of the drafts: what a saved record holds.
SavedTexts == { strip(text) : text \in Drafts } \ { <<>> }

\* A record was saved at clock value t.
SavedAt(t) ==
    /\ strftime(datetime_now(t)) \in DOMAIN store
    /\ store[strftime(datetime_now(t))] \in SavedTexts

\* Name a sorts before name b: the order of the strings, whose fields have a
\* fixed width, is the order of the fields from the left.
NameLess(a, b) ==
    \E i \in 1..Len(a) : a[i] < b[i] /\ \A j \in 1..(i - 1) : a[j] = b[j]

\* C16 as stated: of two records saved more than one second apart, the later
\* has the greater name.
C16_Original ==
    \A t1, t2 \in Instants :
        (t2 > t1 + 1 /\ SavedAt(t1) /\ SavedAt(t2)) =>
            NameLess(strftime(datetime_now(t1)), strftime(datetime_now(t2)))

\* C16 amended: of two records saved more than one second apart in the same
\* calendar year, the later has the greater name.
C16_NamesWithinYear ==
    \A t1, t2 \in Instants :
        (/\ t2 > t1 + 1
         /\ SavedAt(t1)
         /\ SavedAt(t2)
         /\ datetime_now(t1).Y = datetime_now(t2).Y) =>
            NameLess(strftime(datetime_now(t1)), strftime(datetime_now(t2)))

\* C16 witness: records were saved on 2 January and on 1 February 2025.
C16_Witness ==
    /\ SavedAt(Day + 2)
    /\ SavedAt(31 * Day + 2)
    /\ datetime_now(Day + 2) =
          [Y |-> 2025, m |-> 1, d |-> 2, H |-> 0, M |-> 0, S |-> 1]
    /\ datetime_now(31 * Day + 2) =
          [Y |-> 2025, m |-> 2, d |-> 1, H |-> 0, M |-> 0, S |-> 1]

\* ------------------------------------------- sessions sharing the record store

\* submit_prayer_request called in another session with that draft: what it
\* does to the directory and the records they share.
peer_records(text) ==
    \/ /\ strip(text) = <<>>
       /\ UNCHANGED disk
    \/ /\ strip(text) # <<>>
       /\ ~dir_exists
       /\ UNCHANGED disk
    \/ /\ strip(text) # <<>>
       /\ dir_exists' = TRUE
       /\ UNCHANGED store
    \/ /\ strip(text) # <<>>
       /\ dir_exists' = TRUE
       /\ \E content \in partial(strip(text)) :
             store' = written(filename(now), content)
    \/ /\ strip(text) # <<>>
       /\ dir_exists' = TRUE
       /\ store' = written(filename(now), strip(text))

\* The other session has a draft and a state of its own; this session sees
\* of its call only the records.
peer_submit ==
    /\ \E text \in Drafts : peer_records(text)
    /\ op' = "peer_submit"
    /\ UNCHANGED <<session, files, frame, now, signal, mount>>

NextStore ==
    \/ \E text \in Drafts : set_prayer_request(text)
    \/ submit_prayer_request
    \/ peer_submit
    \/ Tick

SpecStore == Init /\ [][NextStore]_vars

\* C17 as stated: a record that exists keeps its content, whichever session
\* submits afterwards.
C17_Original ==
    [][\A name \in DOMAIN store :
          name \in DOMAIN store' /\ store'[name] = store[name]]_vars

\* C17 amended: no record is ever removed, and a record keeps its content
\* through every step of either session, unless it is the record named after
\* the second in which the step is taken.
C17_OtherSecondsKept ==
    [][\A name \in DOMAIN store :
          /\ name \in DOMAIN store'
          /\ name # strftime(datetime_now(now)) => store'[name] = store[name]]_vars

\* C17 witness: the other session has saved a record in the second after the
\* one in which this session saved its own.
C17_Witness ==
    /\ op = "peer_submit"
    /\ now = 1
    /\ signal = ToastSaved
    /\ strftime(datetime_now(0)) \in DOMAIN store
    /\ store[strftime(datetime_now(0))] = <<"b">>
    /\ strftime(datetime_now(1)) \in DOMAIN store
    /\ store[strftime(datetime_now(1))] = <<"a">>

\* --------------------------------------- the storage steps of a submission

\* Lines 129-131: the call starts; a blank draft is refused at once.
submit_begin ==
    /\ pc = "idle"
    /\ IF strip(prayer_request_text) = <<>>
       THEN /\ signal' = ToastEmpty
            /\ UNCHANGED frame
       ELSE /\ pc' = "makedirs"
            /\ prayer_text' = strip(prayer_request_text)
            /\ UNCHANGED <<filepath, signal>>
    /\ op' = "submit_prayer_request"
    /\ NotMount
    /\ UNCHANGED <<session, files, disk, now>>

\* Lines 150-151: the call ends with the failure notification.
submit_except ==
    /\ pc' = "idle"
    /\ prayer_text' = <<>>
    /\ filepath' = <<>>
    /\ signal' = ToastSaveError
    /\ UNCHANGED <<session, files, now, op, mount>>

\* Lines 136-141: the directory is made and the name taken from the clock,
\* or os.makedirs raises.
step_makedirs ==
    /\ pc = "makedirs"
    /\ \/ /\ dir_exists' = TRUE
          /\ pc' = "open"
          /\ filepath' = filename(now)
          /\ UNCHANGED <<session, files, store, now, op, signal, mount,
                         prayer_text>>
       \/ /\ ~dir_exists
          /\ UNCHANGED disk
          /\ submit_except

\* Line 144: the file is created, or truncated, or open raises.
step_open ==
    /\ pc = "open"
    /\ \/ /\ store' = written(filepath, <<>>)
          /\ pc' = "write"
          /\ UNCHANGED <<session, files, dir_exists, now, op, signal, mount,
                         prayer_text, filepath>>
       \/ /\ UNCHANGED disk
          /\ submit_except

\* Lines 145-149: the text reaches the file, the draft is cleared and the
\* call ends with the success notification; or the write raises with part of
\* the text in the file.
step_write ==
    /\ pc = "write"
    /\ \/ /\ store' = written(filepath, prayer_text)
          /\ prayer_request_text' = <<>>
          /\ pc' = "idle"
          /\ prayer_text' = <<>>
          /\ filepath' = <<>>
          /\ signal' = ToastSaved
          /\ UNCHANGED <<auth, data, view, files, dir_exists, now, op, mount>>
       \/ /\ \E content \in partial(prayer_text) :
                store' = written(filepath, content)
          /\ UNCHANGED dir_exists
          /\ submit_except

\* The handlers of a session run one at a time: the draft is set between
\* calls of submit_prayer_request.  The clock does not wait.
NextSteps ==
    \/ \E text \in Drafts : pc = "idle" /\ set_prayer_request(text)
    \/ submit_begin
    \/ step_makedirs
    \/ step_open
    \/ step_write
    \/ Tick

SpecSteps == Init /\ [][NextSteps]_vars

\* C18, for the states in which no submission is under way: every record that
\* exists holds the complete trimmed text of a submission.
C18_RecordsComplete ==
    pc = "idle" => \A name \in DOMAIN store : store[name] \in SavedTexts

====
